---- MODULE Spec2Model ----
(***************************************************************************)
(* Web3 sign-in message checker (shared/modules/message-checker.js) and    *)
(* its store (app/scripts/controllers/web3-auth.js).                       *)
(*                                                                         *)
(* A message text is a sequence of lexemes: the one-character strings      *)
(* "s", "S", "t", " " and two longer substrings that the code treats       *)
(* specially, the literal text "_nonce_" and a 0x-prefixed 40-hex-digit    *)
(* address.  A word (token) is the string obtained by concatenating        *)
(* lexemes; a fingerprint is a sequence of words.                          *)
(***************************************************************************)
EXTENDS Integers, Sequences, FiniteSets, TLC

VARIABLES
    web3Storage,    \* the controller's store: globalFingerprints, signedMessages
    now,            \* the value Date.now() returns
    pc,             \* position of the caller
    messageInfo,    \* the MessageInfo under consideration
    args,           \* arguments of a direct call of a pure function
    ret,            \* value returned by the last call
    log             \* history: every MessageInfo passed to setMessageInfo, in order

vars == <<web3Storage, now, pc, messageInfo, args, ret, log>>

(***************************************************************************)
(* Bounds of the model.                                                    *)
(***************************************************************************)
MaxMsgLen == 3
MaxWords == 2

(***************************************************************************)
(* Lexemes.                                                                *)
(***************************************************************************)
Nonce == "_nonce_"
AddressPlaceholder == "_address_"
AddressLiteral == "0x52908400098527886E0F7030069857D2E4169EE7"

None == [none |-> TRUE]

\* /\s/
isWhitespace(c) == c = " "

\* /0x[a-fA-F0-9]{40}/
isAddress(c) == c = AddressLiteral

\* String.prototype.toLowerCase, per lexeme
toLowerCase(c) ==
    IF c = "S" THEN "s"
    ELSE IF c = AddressLiteral THEN "0x52908400098527886e0f7030069857d2e4169ee7"
    ELSE c

RECURSIVE SeqsUpTo(_, _)
SeqsUpTo(S, n) ==
    IF n = 0 THEN {<<>>}
    ELSE LET shorter == SeqsUpTo(S, n - 1)
         IN  shorter \cup {Append(q, x) : q \in shorter, x \in S}

\* the string made of the lexemes str[i..j]
RECURSIVE substring(_, _, _)
substring(str, i, j) ==
    IF i > j THEN "" ELSE str[i] \o substring(str, i + 1, j)

(***************************************************************************)
(* generateFingerprint                                                     *)
(***************************************************************************)
\* message.replace(/0x[a-fA-F0-9]{40}/g, '_address_')
replaceAddress(message) ==
    [i \in 1..Len(message) |->
        IF isAddress(message[i]) THEN AddressPlaceholder ELSE message[i]]

\* index of the last lexeme of the whitespace run that starts at i
RECURSIVE runEnd(_, _)
runEnd(str, i) ==
    IF i < Len(str) /\ isWhitespace(str[i + 1]) THEN runEnd(str, i + 1) ELSE i

\* message.split(/(\s+)/): the words and, between them, the whitespace runs
RECURSIVE splitFrom(_, _, _, _)
splitFrom(str, i, word, words) ==
    IF i > Len(str) THEN Append(words, word)
    ELSE IF isWhitespace(str[i])
         THEN LET j == runEnd(str, i)
              IN  splitFrom(str, j + 1, "", words \o <<word, substring(str, i, j)>>)
         ELSE splitFrom(str, i + 1, word \o str[i], words)

split(str) == splitFrom(str, 1, "", <<>>)

\* values as the code distinguishes them with typeof / Array.isArray
String(s) == [type |-> "string", value |-> s]
Array(a) == [type |-> "array", value |-> a]

Return(v) == [threw |-> FALSE, value |-> v]
Throw(e) == [threw |-> TRUE, error |-> e]

\* the callback of messageList.map
toWords(message) ==
    IF message.type = "string" THEN Return(split(replaceAddress(message.value)))
    ELSE IF message.type = "array" THEN Return(message.value)
    ELSE Throw("Message must be a string or a list of words!")

\* isSame taking a _nonce_ in an input for any word
isSameOrNonce(messages_words, i, word) ==
    \A k \in 1..Len(messages_words) :
        /\ i <= Len(messages_words[k])
        /\ messages_words[k][i] = word \/ messages_words[k][i] = Nonce

\* isSame with some in place of every
isSameSome(messages_words, i, word) ==
    \E k \in 1..Len(messages_words) :
        i <= Len(messages_words[k]) /\ messages_words[k][i] = word

\* messages_words.every(words => words[i] == word): an index past the end of
\* words reads undefined, which equals no word
isSame(messages_words, i, word) ==
    \A k \in 1..Len(messages_words) :
        i <= Len(messages_words[k]) /\ messages_words[k][i] = word

RECURSIVE compareWords(_, _, _)
compareWords(messages_words, i, fingerprint) ==
    IF i > Len(messages_words[1]) THEN fingerprint
    ELSE LET word == messages_words[1][i]
         IN  compareWords(messages_words, i + 1,
                 Append(fingerprint,
                        IF isSame(messages_words, i, word) THEN word ELSE Nonce))

lengthsDiffer(messages_words) ==
    \E k \in 1..Len(messages_words) :
        Len(messages_words[k]) # Len(messages_words[1])

generateFingerprint(messageList) ==
    IF Len(messageList) = 0 THEN Throw("Message list is empty!")
    ELSE
    LET mapped == [k \in 1..Len(messageList) |-> toWords(messageList[k])]
    IN  IF \E k \in 1..Len(mapped) : mapped[k].threw
        THEN mapped[CHOOSE k \in 1..Len(mapped) :
                        /\ mapped[k].threw
                        /\ \A h \in 1..(k - 1) : ~mapped[h].threw]
        ELSE
        LET messages_words == [k \in 1..Len(mapped) |-> mapped[k].value]
        IN  IF Len(messages_words) = 1 THEN Return(messages_words[1])
            ELSE IF lengthsDiffer(messages_words)
                 THEN Throw("Message lengths are not equal!")
                 ELSE Return(compareWords(messages_words, 1, <<>>))

(***************************************************************************)
(* compareFingerprint                                                      *)
(***************************************************************************)
\* compareFrom skipping a position only when f1 holds _nonce_ there
RECURSIVE compareFromOneSided(_, _, _)
compareFromOneSided(f1, f2, i) ==
    IF i > Len(f1) THEN TRUE
    ELSE LET word1 == f1[i]
             word2 == f2[i]
         IN  IF word1 = Nonce THEN compareFromOneSided(f1, f2, i + 1)
             ELSE IF word1 # word2 THEN FALSE
             ELSE compareFromOneSided(f1, f2, i + 1)

RECURSIVE compareFrom(_, _, _)
compareFrom(f1, f2, i) ==
    IF i > Len(f1) THEN TRUE
    ELSE LET word1 == f1[i]
             word2 == f2[i]
         IN  IF word1 = Nonce \/ word2 = Nonce THEN compareFrom(f1, f2, i + 1)
             ELSE IF word1 # word2 THEN FALSE
             ELSE compareFrom(f1, f2, i + 1)

\* compareFingerprint rejecting only a longer f1
compareFingerprintPrefix(f1, f2) ==
    IF Len(f1) > Len(f2) THEN FALSE ELSE compareFrom(f1, f2, 1)

compareFingerprint(f1, f2) ==
    IF Len(f1) # Len(f2) THEN FALSE ELSE compareFrom(f1, f2, 1)

(***************************************************************************)
(* Objects.  A JavaScript object with string keys is the sequence of its   *)
(* entries in insertion order, which is the order for..in visits them in.  *)
(***************************************************************************)
hasKey(obj, k) == \E i \in 1..Len(obj) : obj[i].key = k

get(obj, k) == obj[CHOOSE i \in 1..Len(obj) : obj[i].key = k].value

\* obj[k] = v
put(obj, k, v) ==
    IF hasKey(obj, k)
    THEN [i \in 1..Len(obj) |->
             IF obj[i].key = k THEN [key |-> k, value |-> v] ELSE obj[i]]
    ELSE Append(obj, [key |-> k, value |-> v])

\* obj[k], which may be undefined
lookup(obj, k) ==
    IF hasKey(obj, k) THEN [defined |-> TRUE, value |-> get(obj, k)]
    ELSE [defined |-> FALSE]

\* x.name: reading a property of undefined is a TypeError
member(x, name) ==
    IF x.defined THEN Return(x.value[name])
    ELSE Throw("TypeError: Cannot read properties of undefined")

(***************************************************************************)
(* createMessageInfo                                                       *)
(***************************************************************************)
\* createMessageInfo without the try/catch
createMessageInfoNoCatch(msg, globalFingerprints) ==
    LET info == [address |-> msg.address,
                 message |-> msg.message,
                 createdAt |-> now,
                 domain |-> msg.domain,
                 web3Name |-> msg.web3Name,
                 fingerprint |-> <<>>]
        messageList ==
            IF hasKey(globalFingerprints, info.domain)
            THEN <<String(info.message), Array(get(globalFingerprints, info.domain))>>
            ELSE <<String(info.message)>>
        result == generateFingerprint(messageList)
    IN  IF result.threw THEN result
        ELSE Return([info EXCEPT !.fingerprint = result.value])

\* createMessageInfo whose catch keeps the stored fingerprint of the domain
createMessageInfoKeepsStored(msg, globalFingerprints) ==
    LET info == [address |-> msg.address,
                 message |-> msg.message,
                 createdAt |-> now,
                 domain |-> msg.domain,
                 web3Name |-> msg.web3Name,
                 fingerprint |-> <<>>]
        messageList ==
            IF hasKey(globalFingerprints, info.domain)
            THEN <<String(info.message), Array(get(globalFingerprints, info.domain))>>
            ELSE <<String(info.message)>>
        attempt == generateFingerprint(messageList)
        result == IF attempt.threw
                  THEN Return(get(globalFingerprints, info.domain))
                  ELSE attempt
    IN  Return([info EXCEPT !.fingerprint = result.value])

createMessageInfo(msg, globalFingerprints) ==
    LET info == [address |-> msg.address,
                 message |-> msg.message,
                 createdAt |-> now,
                 domain |-> msg.domain,
                 web3Name |-> msg.web3Name,
                 fingerprint |-> <<>>]
        messageList ==
            IF hasKey(globalFingerprints, info.domain)
            THEN <<String(info.message), Array(get(globalFingerprints, info.domain))>>
            ELSE <<String(info.message)>>
        attempt == generateFingerprint(messageList)
        result == IF attempt.threw
                  THEN generateFingerprint(<<String(info.message)>>)
                  ELSE attempt
    IN  IF result.threw THEN result
        ELSE Return([info EXCEPT !.fingerprint = result.value])

(***************************************************************************)
(* checkMessageBeforeSign                                                  *)
(***************************************************************************)
\* message.toLowerCase().indexOf(domain.toLowerCase()) != -1
includesIgnoreCase(message, domain) ==
    \E o \in 0..(Len(message) - Len(domain)) :
        \A i \in 1..Len(domain) :
            toLowerCase(message[o + i]) = toLowerCase(domain[i])

\* pop that removes nothing
popNothing(Risks) == Risks

\* Risks.pop()
pop(Risks) == SubSeq(Risks, 1, Len(Risks) - 1)

\* fingerprint.some(item => item == '_nonce_')
someNonce(fingerprint) == \E i \in 1..Len(fingerprint) : fingerprint[i] = Nonce

\* the domains of obj, in its order, other than domain, whose fingerprint
\* compares equal to fingerprint
RECURSIVE sameFingerprintFrom(_, _, _, _, _)
sameFingerprintFrom(obj, i, domain, fingerprint, found) ==
    IF i > Len(obj) THEN found
    ELSE LET d == obj[i].key
             f2 == obj[i].value
         IN  sameFingerprintFrom(obj, i + 1, domain, fingerprint,
                 IF d = domain THEN found
                 ELSE IF compareFingerprint(fingerprint, f2) THEN Append(found, d)
                 ELSE found)

InfoPhishing ==
    [severity |-> "info", title |-> "Phishing Attack",
     body |-> [text |-> "This website has the risk of phishing attack. The message you signed does not include domain name."]]

WarningPhishing(similarDomains) ==
    [severity |-> "warning", title |-> "Phishing Attack",
     body |-> [text |-> "This message is the same as other websites.",
               domains |-> similarDomains]]

DangerPhishing(domain, victim_domains) ==
    [severity |-> "danger", title |-> "Phishing Attack",
     body |-> [text |-> "This is a phishing website.",
               domain |-> domain,
               domains |-> victim_domains]]

InfoReplay ==
    [severity |-> "info", title |-> "Replay Attack",
     body |-> [text |-> "This message has the risk of replay attack, because it does not include nonce."]]

\* hasHistory without the test
hasHistoryUnchecked(signedMessages, address) == TRUE

\* signedMessages[address] != undefined
hasHistory(signedMessages, address) == lookup(signedMessages, address).defined

\* hasLocalFingerprint asking for any domain's entry
hasLocalFingerprintOfAnyDomain(signedMessages, address, domain) ==
    LET localFingerprints == member(lookup(signedMessages, address), "localFingerprints")
    IN  IF localFingerprints.threw THEN localFingerprints
        ELSE Return(Len(localFingerprints.value) > 0)

\* signedMessages[address].localFingerprints[domain] != undefined
hasLocalFingerprint(signedMessages, address, domain) ==
    LET localFingerprints == member(lookup(signedMessages, address), "localFingerprints")
    IN  IF localFingerprints.threw THEN localFingerprints
        ELSE Return(hasKey(localFingerprints.value, domain))

checkMessageBeforeSign(info, signedMessages, globalFingerprints) ==
    LET address == info.address
        message == info.message
        domain == info.domain
        fingerprint == info.fingerprint
        \* Info: Phishing Attack
        domainInMsg == includesIgnoreCase(message, domain)
        Risks1 == IF ~domainInMsg THEN <<InfoPhishing>> ELSE <<>>
        \* Warning: Phishing Attack
        similarDomains ==
            sameFingerprintFrom(globalFingerprints, 1, domain, fingerprint, <<>>)
        Risks2 ==
            IF Len(similarDomains) > 0
            THEN Append(IF Len(Risks1) > 0 THEN pop(Risks1) ELSE Risks1,
                        WarningPhishing(similarDomains))
            ELSE Risks1
        \* Danger: Phishing Attack
        localFingerprints == member(lookup(signedMessages, address), "localFingerprints")
        Risks3 ==
            IF hasHistory(signedMessages, address)
            THEN IF localFingerprints.threw THEN localFingerprints
                 ELSE LET victim_domains ==
                              sameFingerprintFrom(localFingerprints.value, 1,
                                                  domain, fingerprint, <<>>)
                      IN  IF Len(victim_domains) > 0
                          THEN Return(Append(IF Len(Risks2) > 0 THEN pop(Risks2)
                                                                ELSE Risks2,
                                             DangerPhishing(domain, victim_domains)))
                          ELSE Return(Risks2)
            ELSE Return(Risks2)
        \* Info: Replay Attack
        known == IF hasHistory(signedMessages, address)
                 THEN hasLocalFingerprint(signedMessages, address, domain)
                 ELSE Return(FALSE)
        nonceInMsg ==
            IF known.value THEN someNonce(fingerprint)
            ELSE IF Len(similarDomains) > 0
                 THEN someNonce(get(globalFingerprints, similarDomains[1]))
                 ELSE FALSE
        outcome ==
            IF Risks3.threw THEN Risks3
            ELSE IF known.threw THEN known
            ELSE IF ~nonceInMsg THEN Return(Append(Risks3.value, InfoReplay))
            ELSE Risks3
    IN  [outcome |-> outcome,
         messageInfo |-> info,
         signedMessages |-> signedMessages,
         globalFingerprints |-> globalFingerprints]

(***************************************************************************)
(* Web3AuthController                                                      *)
(***************************************************************************)
initState == [globalFingerprints |-> <<>>, signedMessages |-> <<>>]

setMessageInfo(storage, info) ==
    LET signedMessages1 ==
            IF ~hasKey(storage.signedMessages, info.address)
            THEN put(storage.signedMessages, info.address,
                     [localFingerprints |-> <<>>, localMessages |-> <<>>])
            ELSE storage.signedMessages
        entry == get(signedMessages1, info.address)
        entry1 == [entry EXCEPT
                      !.localMessages = put(@, info.createdAt, info)]
        entry2 == [entry1 EXCEPT
                      !.localFingerprints = put(@, info.domain, info.fingerprint)]
    IN  [storage EXCEPT !.signedMessages = put(signedMessages1, info.address, entry2)]

setGlobalFingerprint(storage, info) ==
    [storage EXCEPT
        !.globalFingerprints = put(@, info.domain, info.fingerprint)]

(***************************************************************************)
(* Direct calls of the fingerprint engine, on inputs drawn from bounded    *)
(* sets.                                                                   *)
(***************************************************************************)
Letters == {"s", "t", " "}

\* message texts: every text of letters and blanks up to MaxMsgLen, and
\* texts that hold an address or the literal text _nonce_
Messages ==
    SeqsUpTo(Letters, MaxMsgLen)
        \cup {<<AddressLiteral>>, <<"s", AddressLiteral>>,
              <<"s", " ", AddressLiteral>>, <<AddressLiteral, " ", "t">>,
              <<Nonce>>, <<"s", " ", Nonce>>}

Words == {"s", "t", Nonce}

\* the fingerprints of texts of n words: split leaves words at the odd
\* positions and the whitespace between them at the even ones
RECURSIVE FingerprintsOf(_)
FingerprintsOf(n) ==
    IF n = 1 THEN {<<w>> : w \in Words}
    ELSE {f \o <<" ", w>> : f \in FingerprintsOf(n - 1), w \in Words}

Fingerprints == UNION {FingerprintsOf(n) : n \in 1..MaxWords}

Inputs == {String(m) : m \in Messages} \cup {Array(f) : f \in Fingerprints}

MessageLists ==
    {<<x>> : x \in Inputs}
        \cup {<<x, y>> : x \in Inputs, y \in Inputs}
        \cup {<<Array(f), Array(g), Array(h)>> :
                  f \in Fingerprints, g \in Fingerprints, h \in Fingerprints}

\* b with the positions in mask replaced by _nonce_
replaceWithNonce(b, mask) ==
    [i \in 1..Len(b) |-> IF i \in mask THEN Nonce ELSE b[i]]

InitFingerprint ==
    /\ web3Storage = initState
    /\ now = 0
    /\ pc = "call"
    /\ messageInfo = None
    /\ ret = None
    /\ log = <<>>
    /\ \/ \E messageList \in MessageLists :
              args = [fn |-> "generateFingerprint", messageList |-> messageList]
       \/ \E f1 \in Fingerprints, f2 \in Fingerprints :
              \E mask \in SUBSET (1..Len(f2)) :
                  args = [fn |-> "compareFingerprint",
                          f1 |-> f1, f2 |-> f2, mask |-> mask]

CallGenerateFingerprint ==
    /\ pc = "call"
    /\ args.fn = "generateFingerprint"
    /\ ret' = generateFingerprint(args.messageList)
    /\ pc' = "return"
    /\ UNCHANGED <<web3Storage, now, messageInfo, args, log>>

CallCompareFingerprint ==
    /\ pc = "call"
    /\ args.fn = "compareFingerprint"
    /\ ret' = [f1f2 |-> compareFingerprint(args.f1, args.f2),
               f2f1 |-> compareFingerprint(args.f2, args.f1),
               f1f1 |-> compareFingerprint(args.f1, args.f1),
               masked |-> compareFingerprint(args.f1,
                                             replaceWithNonce(args.f2, args.mask))]
    /\ pc' = "return"
    /\ UNCHANGED <<web3Storage, now, messageInfo, args, log>>

NextFingerprint == CallGenerateFingerprint \/ CallCompareFingerprint

SpecFingerprint == InitFingerprint /\ [][NextFingerprint]_vars

(***************************************************************************)
(* Properties of the fingerprint engine (under SpecFingerprint).           *)
(***************************************************************************)
Returned(fn) == pc = "return" /\ args.fn = fn

\* the word sequences of the inputs of a call of generateFingerprint
wordsOf(messageList) ==
    [k \in 1..Len(messageList) |-> toWords(messageList[k]).value]

\* the positions where two word sequences of equal length differ
differing(w1, w2) == {i \in 1..Len(w1) : w1[i] # w2[i]}

\* C4: generateFingerprint on two or more inputs throws the length-mismatch
\* error when the inputs' word sequences do not all have the same length;
\* otherwise it returns a sequence of that length holding, at each position,
\* the inputs' common word if they all agree there and _nonce_ if two of them
\* differ.  For two messages of equal length that differ in exactly one word
\* the result is the first message with that word replaced by _nonce_.
GenerateFingerprintInfers ==
    (Returned("generateFingerprint") /\ Len(args.messageList) >= 2) =>
        LET W == wordsOf(args.messageList)
            K == 1..Len(W)
            n == Len(W[1])
        IN  /\ IF \E j \in K, k \in K : Len(W[j]) # Len(W[k])
               THEN ret = Throw("Message lengths are not equal!")
               ELSE /\ ~ret.threw
                    /\ Len(ret.value) = n
                    /\ \A i \in 1..n :
                         IF \A j \in K, k \in K : W[j][i] = W[k][i]
                         THEN ret.value[i] = W[1][i]
                         ELSE ret.value[i] = Nonce
            /\ (/\ Len(W) = 2
                /\ args.messageList[1].type = "string"
                /\ args.messageList[2].type = "string"
                /\ Len(W[1]) = Len(W[2])
                /\ Cardinality(differing(W[1], W[2])) = 1)
               => LET p == CHOOSE i \in differing(W[1], W[2]) : TRUE
                  IN  ret = Return([W[1] EXCEPT ![p] = Nonce])

\* C4 witness: "s t" and "s s" differ in their last word only
GenerateFingerprintInfersWitness ==
    /\ Returned("generateFingerprint")
    /\ args.messageList = <<String(<<"s", " ", "t">>), String(<<"s", " ", "s">>)>>
    /\ ret = Return(<<"s", " ", Nonce>>)

\* C5: compareFingerprint ignores _nonce_ positions.  It is true exactly when
\* the lengths are equal and every position where neither side is _nonce_
\* holds equal words; replacing positions of f2 by _nonce_ never turns a true
\* comparison false.
CompareIgnoresNonce ==
    Returned("compareFingerprint") =>
        LET f1 == args.f1
            f2 == args.f2
        IN  /\ ret.f1f2 => ret.masked
            /\ ret.f1f2 <=>
                  /\ Len(f1) = Len(f2)
                  /\ \A i \in 1..Len(f1) :
                         (f1[i] # Nonce /\ f2[i] # Nonce) => f1[i] = f2[i]

\* C5 witness: a replacement that turns a false comparison true
CompareIgnoresNonceWitness ==
    /\ Returned("compareFingerprint")
    /\ Len(args.f1) = Len(args.f2)
    /\ args.mask # {}
    /\ ~ret.f1f2
    /\ ret.masked

\* C6: compareFingerprint is reflexive and symmetric, also on fingerprints
\* that hold _nonce_ and on fingerprints of different lengths.
CompareReflexiveSymmetric ==
    Returned("compareFingerprint") =>
        /\ ret.f1f1
        /\ ret.f1f2 = ret.f2f1

\* C6 witness: different fingerprints, one with _nonce_, that compare equal
\* both ways
CompareReflexiveSymmetricWitness ==
    /\ Returned("compareFingerprint")
    /\ args.f1 = <<"s", " ", Nonce>>
    /\ args.f2 = <<"s", " ", "t">>
    /\ ret.f1f2
    /\ ret.f2f1

(***************************************************************************)
(* Direct calls of checkMessageBeforeSign, on a MessageInfo, a signing     *)
(* history and a globalFingerprints object drawn from bounded sets.        *)
(***************************************************************************)
Domains == {<<"s">>, <<"t">>, <<"t", "s">>}

Addresses == {"0xA", "0xB"}

\* the texts of the assessed messages: each holds some domains (one of them
\* only up to case) and not others
RiskMessages == {<<"t">>, <<"t", " ", "S">>}

\* the fingerprints an assessed message can carry: its words, any of them
\* inferred to be _nonce_
RiskFingerprints(m) ==
    LET words == toWords(String(m)).value
    IN  {replaceWithNonce(words, mask) : mask \in SUBSET (1..Len(words))}

\* the fingerprints kept in globalFingerprints
GlobalValues == {<<"s">>, <<Nonce>>, <<"t", " ", Nonce>>}

\* the messages a signer has signed, with the fingerprints they carried
LocalValues ==
    {[message |-> <<"s">>, fingerprint |-> <<"s">>],
     [message |-> <<"t", " ", "s">>, fingerprint |-> <<"t", " ", Nonce>>]}

\* the objects with at most n entries, keys from K (each at most once) and
\* values from V, in every insertion order
RECURSIVE ObjectsUpTo(_, _, _)
ObjectsUpTo(K, V, n) ==
    IF n = 0 THEN {<<>>}
    ELSE LET smaller == ObjectsUpTo(K, V, n - 1)
         IN  smaller \cup
                 UNION {{Append(obj, [key |-> k, value |-> v]) :
                             k \in {x \in K : ~hasKey(obj, x)}, v \in V} :
                        obj \in {o \in smaller : Len(o) = n - 1}}

Objects(K, V) == ObjectsUpTo(K, V, Cardinality(K))

GlobalObjects == Objects(Domains, GlobalValues)
LocalObjects == Objects(Domains, LocalValues)

\* the history of address a after it signed, for each entry of l in turn, the
\* entry's message for the entry's domain
history(a, l) ==
    <<[key |-> a,
       value |->
           [localFingerprints |->
                [i \in 1..Len(l) |->
                     [key |-> l[i].key, value |-> l[i].value.fingerprint]],
            localMessages |->
                [i \in 1..Len(l) |->
                     [key |-> i,
                      value |-> [address |-> a, message |-> l[i].value.message,
                                 createdAt |-> i, domain |-> l[i].key,
                                 web3Name |-> "web3",
                                 fingerprint |-> l[i].value.fingerprint]]]]]>>

\* the signing histories: none, one of another address only, one of the signer
Histories ==
    {<<>>}
        \cup {history("0xB", l) :
                  l \in {o \in LocalObjects : Len(o) = 1 /\ o[1].key = <<"s">>}}
        \cup {history("0xA", l) : l \in LocalObjects}

InitAssess ==
    /\ now = Cardinality(Domains) + 1
    /\ pc = "call"
    /\ ret = None
    /\ log = <<>>
    /\ \E g \in GlobalObjects, h \in Histories :
           web3Storage = [globalFingerprints |-> g, signedMessages |-> h]
    /\ \E m \in RiskMessages, d \in Domains :
         \E f \in RiskFingerprints(m) :
           messageInfo = [address |-> "0xA", message |-> m, createdAt |-> now,
                          domain |-> d, web3Name |-> "web3", fingerprint |-> f]
    /\ args = [fn |-> "checkMessageBeforeSign",
               messageInfo |-> messageInfo,
               signedMessages |-> web3Storage.signedMessages,
               globalFingerprints |-> web3Storage.globalFingerprints]

\* the arguments are passed by reference: what they hold after the call is
\* what the call left in them
CallCheckMessageBeforeSign ==
    /\ pc = "call"
    /\ args.fn = "checkMessageBeforeSign"
    /\ LET r == checkMessageBeforeSign(messageInfo, web3Storage.signedMessages,
                                       web3Storage.globalFingerprints)
       IN  /\ ret' = r.outcome
           /\ messageInfo' = r.messageInfo
           /\ web3Storage' = [globalFingerprints |-> r.globalFingerprints,
                              signedMessages |-> r.signedMessages]
    /\ pc' = "return"
    /\ UNCHANGED <<now, args, log>>

NextAssess == CallCheckMessageBeforeSign

SpecAssess == InitAssess /\ [][NextAssess]_vars

(***************************************************************************)
(* Properties of checkMessageBeforeSign (under SpecAssess).                *)
(***************************************************************************)
\* the findings of the returned list that carry the given title
findings(Risks, title) == {i \in 1..Len(Risks) : Risks[i].title = title}

\* the names a finding's body lists
named(risk) == {risk.body.domains[i] : i \in 1..Len(risk.body.domains)}

\* the domains of obj other than info.domain whose fingerprint matches
\* info.fingerprint
matching(obj, info) ==
    {d \in {obj[i].key : i \in 1..Len(obj)} :
         d # info.domain /\ compareFingerprint(info.fingerprint, get(obj, d))}

\* the signer's localFingerprints; empty when the signer has no history
localOf(signedMessages, address) ==
    IF hasKey(signedMessages, address)
    THEN get(signedMessages, address).localFingerprints
    ELSE <<>>

\* C1: the returned list holds at most one finding titled Phishing Attack, of
\* the highest severity detected: danger, naming the matching local domains,
\* if the signer has a matching localFingerprints entry of another domain;
\* otherwise warning, naming the matching global domains, if another domain
\* of globalFingerprints matches; otherwise info if the domain does not occur
\* in the message text, case ignored; otherwise none.
PhishingFindingIsHighest ==
    Returned("checkMessageBeforeSign") =>
        /\ ~ret.threw
        /\ LET Risks == ret.value
               info == args.messageInfo
               phishing == findings(Risks, "Phishing Attack")
               victims == matching(localOf(args.signedMessages, info.address), info)
               similar == matching(args.globalFingerprints, info)
               theOne == Risks[CHOOSE i \in phishing : TRUE]
           IN  /\ Cardinality(phishing) <= 1
               /\ IF victims # {}
                  THEN /\ Cardinality(phishing) = 1
                       /\ theOne.severity = "danger"
                       /\ named(theOne) = victims
                       /\ Len(theOne.body.domains) = Cardinality(victims)
                  ELSE IF similar # {}
                  THEN /\ Cardinality(phishing) = 1
                       /\ theOne.severity = "warning"
                       /\ named(theOne) = similar
                       /\ Len(theOne.body.domains) = Cardinality(similar)
                  ELSE IF ~includesIgnoreCase(info.message, info.domain)
                  THEN /\ Cardinality(phishing) = 1
                       /\ theOne.severity = "info"
                  ELSE phishing = {}

\* C1 witness: all three detections at once (domain absent from the text, two
\* matching global domains, a matching local domain) and one danger finding
PhishingFindingIsHighestWitness ==
    /\ Returned("checkMessageBeforeSign")
    /\ ~includesIgnoreCase(args.messageInfo.message, args.messageInfo.domain)
    /\ Cardinality(matching(args.globalFingerprints, args.messageInfo)) = 2
    /\ matching(localOf(args.signedMessages, args.messageInfo.address),
                args.messageInfo) # {}
    /\ ~ret.threw
    /\ Cardinality(findings(ret.value, "Phishing Attack")) = 1
    /\ \E i \in 1..Len(ret.value) : ret.value[i].severity = "danger"

\* the first domain of globalFingerprints, in its order, that is not
\* info.domain and matches info.fingerprint
firstMatching(obj, info) ==
    obj[CHOOSE i \in 1..Len(obj) :
            /\ obj[i].key \in matching(obj, info)
            /\ \A h \in 1..(i - 1) : obj[h].key \notin matching(obj, info)]

hasNonce(f) == \E i \in 1..Len(f) : f[i] = "_nonce_"

\* nonceInMsg as the claim defines it
expectedNonceInMsg(info, signedMessages, globalFingerprints) ==
    IF hasKey(localOf(signedMessages, info.address), info.domain)
    THEN hasNonce(info.fingerprint)
    ELSE IF matching(globalFingerprints, info) # {}
    THEN hasNonce(firstMatching(globalFingerprints, info).value)
    ELSE FALSE

\* C2: the info-level Replay Attack finding is appended, once and last,
\* exactly when nonceInMsg is false, where nonceInMsg is whether
\* info.fingerprint holds _nonce_ if the signer has a localFingerprints entry
\* for info.domain; otherwise whether the global fingerprint of the first
\* matching other domain holds _nonce_, if there is one; otherwise false.
ReplayFindingIffNoNonce ==
    Returned("checkMessageBeforeSign") =>
        /\ ~ret.threw
        /\ LET Risks == ret.value
               replay == findings(Risks, "Replay Attack")
               nonceInMsg == expectedNonceInMsg(args.messageInfo,
                                 args.signedMessages, args.globalFingerprints)
           IN  IF nonceInMsg THEN replay = {}
               ELSE /\ replay = {Len(Risks)}
                    /\ Risks[Len(Risks)].severity = "info"

\* C2 witness: no local entry for the domain, two matching global domains of
\* which only the second holds _nonce_: the finding is emitted
ReplayFindingIffNoNonceWitness ==
    /\ Returned("checkMessageBeforeSign")
    /\ ~hasKey(localOf(args.signedMessages, args.messageInfo.address),
               args.messageInfo.domain)
    /\ Cardinality(matching(args.globalFingerprints, args.messageInfo)) = 2
    /\ ~hasNonce(firstMatching(args.globalFingerprints, args.messageInfo).value)
    /\ \E i \in 1..Len(args.globalFingerprints) :
           /\ args.globalFingerprints[i].key
                  \in matching(args.globalFingerprints, args.messageInfo)
           /\ hasNonce(args.globalFingerprints[i].value)
    /\ ~ret.threw
    /\ findings(ret.value, "Replay Attack") # {}

\* C7: checkMessageBeforeSign never throws, returns a list of findings, and
\* leaves the MessageInfo, the signing history and globalFingerprints as
\* they were before the call.
CheckNeverFailsNorMutates ==
    Returned("checkMessageBeforeSign") =>
        /\ ~ret.threw
        /\ \A i \in 1..Len(ret.value) :
               /\ ret.value[i].severity \in {"info", "warning", "danger"}
               /\ ret.value[i].title \in {"Phishing Attack", "Replay Attack"}
        /\ messageInfo = args.messageInfo
        /\ web3Storage.signedMessages = args.signedMessages
        /\ web3Storage.globalFingerprints = args.globalFingerprints

\* C7 witness: a history without the signer and a globalFingerprints without
\* the message's domain
CheckNeverFailsNorMutatesWitness ==
    /\ Returned("checkMessageBeforeSign")
    /\ args.signedMessages # <<>>
    /\ ~hasKey(args.signedMessages, args.messageInfo.address)
    /\ args.globalFingerprints # <<>>
    /\ ~hasKey(args.globalFingerprints, args.messageInfo.domain)
    /\ ~ret.threw

(***************************************************************************)
(* The controller and its caller.  The caller turns a request into a       *)
(* MessageInfo with createMessageInfo, assesses it with                    *)
(* checkMessageBeforeSign and, when the user approves, hands it to the     *)
(* controller's setMessageInfo and setGlobalFingerprint.                   *)
(***************************************************************************)
MaxTime == 2
MaxCommits == 3

SiteDomains == {<<"s">>, <<"t">>}

SiteMessages == {<<AddressLiteral>>, <<"s", " ", "t">>, <<"t", " ", "t">>}

Requests ==
    [address : Addresses, message : SiteMessages, domain : SiteDomains,
     web3Name : {"web3"}]

Init ==
    /\ web3Storage = initState
    /\ now = 1
    /\ pc = "idle"
    /\ messageInfo = None
    /\ args = None
    /\ ret = None
    /\ log = <<>>

\* Date.now() advances
Tick ==
    /\ now < MaxTime
    /\ now' = now + 1
    /\ UNCHANGED <<web3Storage, pc, messageInfo, args, ret, log>>

Request ==
    /\ pc = "idle"
    /\ Len(log) < MaxCommits
    /\ \E msg \in Requests :
           LET r == createMessageInfo(msg, web3Storage.globalFingerprints)
           IN  /\ ret' = r
               /\ messageInfo' = IF r.threw THEN None ELSE r.value
               /\ pc' = IF r.threw THEN "idle" ELSE "created"
    /\ UNCHANGED <<web3Storage, now, args, log>>

Assess ==
    /\ pc = "created"
    /\ LET r == checkMessageBeforeSign(messageInfo, web3Storage.signedMessages,
                                       web3Storage.globalFingerprints)
       IN  /\ ret' = r.outcome
           /\ messageInfo' = r.messageInfo
           /\ web3Storage' = [globalFingerprints |-> r.globalFingerprints,
                              signedMessages |-> r.signedMessages]
    /\ pc' = "checked"
    /\ UNCHANGED <<now, args, log>>

Approve ==
    /\ pc = "checked"
    /\ web3Storage' = setGlobalFingerprint(setMessageInfo(web3Storage, messageInfo),
                                           messageInfo)
    /\ log' = Append(log, messageInfo)
    /\ pc' = "idle"
    /\ messageInfo' = None
    /\ ret' = None
    /\ UNCHANGED <<now, args>>

Reject ==
    /\ pc = "checked"
    /\ pc' = "idle"
    /\ messageInfo' = None
    /\ ret' = None
    /\ UNCHANGED <<web3Storage, now, args, log>>

Next ==
    \/ Tick
    \/ Request
    \/ Assess
    \/ Approve
    \/ Reject

Spec == Init /\ [][Next]_vars

(***************************************************************************)
(* Direct calls of createMessageInfo, on a request and a                   *)
(* globalFingerprints object drawn from bounded sets.                      *)
(***************************************************************************)
CreateMessages ==
    {<<>>, <<" ">>, <<"s">>, <<"s", " ", "t">>, <<"s", " ", " ", "t">>,
     <<AddressLiteral, " ", Nonce>>}

InitCreate ==
    /\ web3Storage \in [globalFingerprints : Objects(SiteDomains, Fingerprints),
                        signedMessages : {<<>>}]
    /\ now = 1
    /\ pc = "call"
    /\ messageInfo = None
    /\ ret = None
    /\ log = <<>>
    /\ \E msg \in [address : {"0xA"}, message : CreateMessages,
                   domain : SiteDomains, web3Name : {"web3"}] :
           args = [fn |-> "createMessageInfo", msg |-> msg]

CallCreateMessageInfo ==
    /\ pc = "call"
    /\ args.fn = "createMessageInfo"
    /\ LET r == createMessageInfo(args.msg, web3Storage.globalFingerprints)
       IN  /\ ret' = r
           /\ messageInfo' = IF r.threw THEN None ELSE r.value
    /\ pc' = "return"
    /\ UNCHANGED <<web3Storage, now, args, log>>

NextCreate == CallCreateMessageInfo

SpecCreate == InitCreate /\ [][NextCreate]_vars

\* the literal words of a message text
literalWords(message) == split(replaceAddress(message))

\* C3: when globalFingerprints holds, for the request's domain, a fingerprint
\* whose number of words differs from that of the new message,
\* createMessageInfo does not throw and returns a MessageInfo whose
\* fingerprint is generateFingerprint([message]), the literal words of the
\* message.
CreateFallsBackOnLengthMismatch ==
    (/\ Returned("createMessageInfo")
     /\ hasKey(web3Storage.globalFingerprints, args.msg.domain)
     /\ Len(get(web3Storage.globalFingerprints, args.msg.domain))
            # Len(literalWords(args.msg.message)))
    => /\ ~ret.threw
       /\ ret.value.message = args.msg.message
       /\ ret.value.domain = args.msg.domain
       /\ ret.value.address = args.msg.address
       /\ ret.value.fingerprint
              = generateFingerprint(<<String(args.msg.message)>>).value
       /\ ret.value.fingerprint = literalWords(args.msg.message)

\* C3 witness: the stored fingerprint is one inferred _nonce_ and the new
\* message has three words
CreateFallsBackOnLengthMismatchWitness ==
    /\ Returned("createMessageInfo")
    /\ args.msg.message = <<"s", " ", "t">>
    /\ hasKey(web3Storage.globalFingerprints, args.msg.domain)
    /\ get(web3Storage.globalFingerprints, args.msg.domain) = <<Nonce>>
    /\ ~ret.threw
    /\ ret.value.fingerprint = <<"s", " ", "t">>

(***************************************************************************)
(* Properties of the store (under Spec).                                   *)
(***************************************************************************)
\* the commits of address a recorded in the log
commitsOf(a) == {i \in 1..Len(log) : log[i].address = a}

entryOf(a) ==
    IF hasKey(web3Storage.signedMessages, a)
    THEN get(web3Storage.signedMessages, a)
    ELSE [localFingerprints |-> <<>>, localMessages |-> <<>>]

\* C8: every MessageInfo committed for an address is still in that address's
\* localMessages, which has as many entries as the address has commits, and
\* every domain written is still a key of the address's localFingerprints and
\* of globalFingerprints.
AuditTrailComplete ==
    /\ \A a \in Addresses :
           LET localMessages == entryOf(a).localMessages
           IN  /\ \A i \in commitsOf(a) :
                      \E j \in 1..Len(localMessages) : localMessages[j].value = log[i]
               /\ Len(localMessages) = Cardinality(commitsOf(a))
               /\ \A i \in commitsOf(a) :
                      hasKey(entryOf(a).localFingerprints, log[i].domain)
    /\ \A i \in 1..Len(log) : hasKey(web3Storage.globalFingerprints, log[i].domain)

\* the last commit for domain d
lastCommit(d) ==
    log[CHOOSE i \in 1..Len(log) :
            /\ log[i].domain = d
            /\ \A j \in (i + 1)..Len(log) : log[j].domain # d]

\* C9: a fingerprint inferred from a message and a stored fingerprint of the
\* same length compares equal to both; and globalFingerprints[d] and the
\* signer's localFingerprints[d] compare equal to the words of the message
\* most recently committed for d.
InferredFingerprintMatches ==
    /\ (/\ pc \in {"created", "checked"}
        /\ hasKey(web3Storage.globalFingerprints, messageInfo.domain)
        /\ Len(get(web3Storage.globalFingerprints, messageInfo.domain))
               = Len(literalWords(messageInfo.message)))
       => /\ compareFingerprint(messageInfo.fingerprint,
                                literalWords(messageInfo.message))
          /\ compareFingerprint(messageInfo.fingerprint,
                                get(web3Storage.globalFingerprints, messageInfo.domain))
    /\ \A d \in SiteDomains :
           (\E i \in 1..Len(log) : log[i].domain = d) =>
               LET last == lastCommit(d)
               IN  /\ hasKey(web3Storage.globalFingerprints, d)
                   /\ compareFingerprint(get(web3Storage.globalFingerprints, d),
                                         literalWords(last.message))
                   /\ hasKey(entryOf(last.address).localFingerprints, d)
                   /\ compareFingerprint(get(entryOf(last.address).localFingerprints, d),
                                         literalWords(last.message))

\* C9 witness: two addresses have committed different messages of one length
\* for a domain, and the domain's fingerprint holds an inferred _nonce_
InferredFingerprintMatchesWitness ==
    /\ Len(log) >= 2
    /\ log[1].domain = <<"s">> /\ log[2].domain = <<"s">>
    /\ log[1].address # log[2].address
    /\ log[1].message = <<"s", " ", "t">>
    /\ log[2].message = <<"t", " ", "t">>
    /\ get(web3Storage.globalFingerprints, <<"s">>) = <<Nonce, " ", "t">>

\* the positions of f that hold _nonce_
noncePositions(f) == {i \in 1..Len(f) : f[i] = Nonce}

\* a commit whose message has as many words as the domain's stored
\* fingerprint keeps every _nonce_ of that fingerprint; the _nonce_ positions
\* of a domain shrink only by a commit whose message has a different number
\* of words, which sets the fingerprint to the message's literal words.
NonceStep ==
    \A d \in SiteDomains :
        hasKey(web3Storage.globalFingerprints, d) =>
            LET old == get(web3Storage.globalFingerprints, d)
                new == get(web3Storage.globalFingerprints', d)
            IN  /\ hasKey(web3Storage.globalFingerprints', d)
                /\ new # old =>
                       /\ pc = "checked" /\ pc' = "idle"
                       /\ messageInfo.domain = d
                       /\ log' = Append(log, messageInfo)
                /\ (new # old /\ Len(literalWords(messageInfo.message)) = Len(old)) =>
                       noncePositions(old) \subseteq noncePositions(new)
                /\ ~(noncePositions(old) \subseteq noncePositions(new)) =>
                       /\ Len(literalWords(messageInfo.message)) # Len(old)
                       /\ new = literalWords(messageInfo.message)

\* C10: every step of the controller and its caller is a NonceStep: _nonce_
\* positions accumulate over commits of one length and are reset only by a
\* commit of a different length.
NonceInferenceAccumulates == [][NonceStep]_vars

\* C10 witness: a domain's fingerprint holds an inferred _nonce_ and a third
\* message, whose word at that position equals the second's, has been
\* committed for it
NonceInferenceAccumulatesWitness ==
    /\ Len(log) = 3
    /\ \A i \in 1..3 : log[i].domain = <<"t">>
    /\ log[1].message = <<"s", " ", "t">>
    /\ log[2].message = <<"t", " ", "t">>
    /\ log[3].message = <<"t", " ", "t">>
    /\ get(web3Storage.globalFingerprints, <<"t">>) = <<Nonce, " ", "t">>

====
